---- MODULE Spec2Model ----
(***************************************************************************)
(* Model of the calculation record lifecycle:                              *)
(*   app/models/calculation.py   the polymorphic entity and its factory    *)
(*   app/schemas/calculation.py  the pydantic boundary schema              *)
(*                                                                         *)
(* Conventions.                                                            *)
(*  - A Python str is a tuple of one-character strings, so that            *)
(*    str.lower() is computed character by character.                      *)
(*  - An optional value is a tuple of length 0 (None / nothing) or 1.      *)
(*  - A Python value passed as `inputs` is a record [pytype, items].       *)
(*  - Numbers are integers; a result is an exact fraction [n, d] in        *)
(*    lowest terms with d > 0, which stands for Python's `/` (true         *)
(*    division).  Python's == does not tell 6 from 6.0, so an integral     *)
(*    result is the fraction with d = 1.  Floating-point rounding is not   *)
(*    modelled.                                                            *)
(*  - Every exception of the modelled code is a ValueError; an error is    *)
(*    the record [msg, arg] of its message text and interpolated value.    *)
(***************************************************************************)
EXTENDS Integers, Sequences, FiniteSets, TLC

VARIABLES req, calc, err, vres, db, saved, loaded, queried, via, origin, read

vars == <<req, calc, err, vres, db, saved, loaded, queried, via, origin, read>>

(***************************************************************************)
(* Bounds                                                                  *)
(***************************************************************************)
MaxNum == 2

MaxLen == 3

MaxCasePos == 1

MaxRecords == 2

Nums == (0 - 1)..MaxNum

Users == {"u1", "u2"}

(***************************************************************************)
(* Strings and str.lower()                                                 *)
(***************************************************************************)
LowerLetters == <<"a","b","c","d","e","f","g","h","i","j","k","l","m",
                  "n","o","p","q","r","s","t","u","v","w","x","y","z">>

UpperLetters == <<"A","B","C","D","E","F","G","H","I","J","K","L","M",
                  "N","O","P","Q","R","S","T","U","V","W","X","Y","Z">>

Chars == {LowerLetters[i] : i \in 1..26} \cup {UpperLetters[i] : i \in 1..26}

\* the lower-case and upper-case form of every character
LowerChar ==
  [c \in Chars |->
     IF \E i \in 1..26 : UpperLetters[i] = c
     THEN LowerLetters[CHOOSE i \in 1..26 : UpperLetters[i] = c]
     ELSE c]

UpperChar ==
  [c \in Chars |->
     IF \E i \in 1..26 : LowerLetters[i] = c
     THEN UpperLetters[CHOOSE i \in 1..26 : LowerLetters[i] = c]
     ELSE c]

\* a tag compared as given, without .lower()
Lower_as_given(s) == s

\* str.lower()
Lower(s) == [i \in 1..Len(s) |-> LowerChar[s[i]]]

Upper(s) == [i \in 1..Len(s) |-> UpperChar[s[i]]]

UpperAt(s, S) == [i \in 1..Len(s) |-> IF i \in S THEN UpperChar[s[i]] ELSE s[i]]

addition == <<"a","d","d","i","t","i","o","n">>

subtraction == <<"s","u","b","t","r","a","c","t","i","o","n">>

multiplication == <<"m","u","l","t","i","p","l","i","c","a","t","i","o","n">>

division == <<"d","i","v","i","s","i","o","n">>

modulus == <<"m","o","d","u","l","u","s">>

calculation == <<"c","a","l","c","u","l","a","t","i","o","n">>

add == <<"a","d","d">>

\* The tags requests are drawn from: the four known ones, the base class's
\* own identity, unknown ones and the empty string, in several letter cases.
Words == {addition, subtraction, multiplication, division,
          modulus, calculation, add, <<>>}

CaseVariants(w) ==
  {w, Upper(w)} \cup {UpperAt(w, S) : S \in SUBSET (1..MaxCasePos)}

Tags == UNION {CaseVariants(w) : w \in Words}

(***************************************************************************)
(* Python values passed as `inputs`                                        *)
(***************************************************************************)
SeqsUpTo(S, n) == UNION {[1..k -> S] : k \in 0..n}

PyList(s) == [pytype |-> "list", items |-> s]

Lists == {PyList(s) : s \in SeqsUpTo(Nums, MaxLen)}

NonLists == {[pytype |-> "tuple", items |-> <<1, 2>>],
             [pytype |-> "tuple", items |-> <<2, 0>>],
             [pytype |-> "tuple", items |-> <<>>],
             [pytype |-> "NoneType", items |-> <<>>]}

\* isinstance(v, list)
IsList(v) == v.pytype = "list"

(***************************************************************************)
(* Exact arithmetic                                                        *)
(***************************************************************************)
Abs(x) == IF x < 0 THEN 0 - x ELSE x

RECURSIVE Gcd(_, _)
Gcd(a, b) == IF b = 0 THEN a ELSE Gcd(b, a % b)

\* the number n/d, d # 0, in lowest terms with a positive denominator
Frac(n, d) ==
  LET g == Gcd(Abs(n), Abs(d))
      s == IF d < 0 THEN 0 - 1 ELSE 1
  IN  [n |-> (s * n) \div g, d |-> (s * d) \div g]

Int2Frac(x) == [n |-> x, d |-> 1]

\* result /= value
TrueDiv(f, v) == Frac(f.n, f.d * v)

(***************************************************************************)
(* Errors                                                                  *)
(***************************************************************************)
ValueError(msg, arg) == [msg |-> msg, arg |-> arg]

Ok(v) == [ok |-> TRUE, value |-> v]

Raise(e) == [ok |-> FALSE, err |-> e]

MsgUnsupported == "Unsupported calculation type: "

MsgEngineShape == "Inputs must be a list with at least two numbers."

MsgEngineZero == "Cannot divide by zero."

MsgNotImplemented == "Subclasses must implement get_result() method"

(***************************************************************************)
(* app/models/calculation.py: the variants                                 *)
(***************************************************************************)
Classes == {"Calculation", "Addition", "Subtraction", "Multiplication", "Division"}

\* __mapper_args__["polymorphic_identity"] of each mapped class
polymorphic_identity ==
  [c \in Classes |->
     CASE c = "Calculation"    -> calculation
       [] c = "Addition"       -> addition
       [] c = "Subtraction"    -> subtraction
       [] c = "Multiplication" -> multiplication
       [] c = "Division"       -> division]

\* "polymorphic_on": "type": the class a row with discriminator t loads as
polymorphic_map(t) == CHOOSE c \in Classes : polymorphic_identity[c] = t

\* the guard with the length compared to 1
BadShape_one_suffices(inputs) == ~IsList(inputs) \/ Len(inputs.items) < 1

\* the guard every get_result opens with
BadShape(inputs) == ~IsList(inputs) \/ Len(inputs.items) < 2

\* sum(self.inputs)
RECURSIVE SumFrom(_, _, _)
SumFrom(xs, i, acc) ==
  IF i > Len(xs) THEN acc ELSE SumFrom(xs, i + 1, acc + xs[i])

Addition_get_result(inputs) ==
  IF BadShape(inputs) THEN Raise(ValueError(MsgEngineShape, <<>>))
  ELSE Ok(Int2Frac(SumFrom(inputs.items, 1, 0)))

\* for value in self.inputs[1:]: result -= value
RECURSIVE SubFrom(_, _, _)
SubFrom(xs, i, acc) ==
  IF i > Len(xs) THEN acc ELSE SubFrom(xs, i + 1, acc - xs[i])

\* the loop run over all of self.inputs from 0
Subtraction_get_result_from_zero(inputs) ==
  IF BadShape(inputs) THEN Raise(ValueError(MsgEngineShape, <<>>))
  ELSE Ok(Int2Frac(SubFrom(inputs.items, 1, 0)))

Subtraction_get_result(inputs) ==
  IF BadShape(inputs) THEN Raise(ValueError(MsgEngineShape, <<>>))
  ELSE Ok(Int2Frac(SubFrom(inputs.items, 2, inputs.items[1])))

\* for value in self.inputs: result *= value
RECURSIVE MulFrom(_, _, _)
MulFrom(xs, i, acc) ==
  IF i > Len(xs) THEN acc ELSE MulFrom(xs, i + 1, acc * xs[i])

Multiplication_get_result(inputs) ==
  IF BadShape(inputs) THEN Raise(ValueError(MsgEngineShape, <<>>))
  ELSE Ok(Int2Frac(MulFrom(inputs.items, 1, 1)))

\* for value in self.inputs[1:]: raise on value == 0, else result /= value
RECURSIVE DivFrom(_, _, _)
DivFrom(xs, i, acc) ==
  IF i > Len(xs) THEN Ok(acc)
  ELSE IF xs[i] = 0 THEN Raise(ValueError(MsgEngineZero, <<>>))
  ELSE DivFrom(xs, i + 1, TrueDiv(acc, xs[i]))

\* the zero check applied to the numerator as well
Division_get_result_any_zero(inputs) ==
  IF BadShape(inputs) THEN Raise(ValueError(MsgEngineShape, <<>>))
  ELSE IF \E i \in 1..Len(inputs.items) : inputs.items[i] = 0
  THEN Raise(ValueError(MsgEngineZero, <<>>))
  ELSE DivFrom(inputs.items, 2, Int2Frac(inputs.items[1]))

Division_get_result(inputs) ==
  IF BadShape(inputs) THEN Raise(ValueError(MsgEngineShape, <<>>))
  ELSE DivFrom(inputs.items, 2, Int2Frac(inputs.items[1]))

\* method dispatch on the instance's class
get_result(cls, inputs) ==
  CASE cls = "Addition"       -> Addition_get_result(inputs)
    [] cls = "Subtraction"    -> Subtraction_get_result(inputs)
    [] cls = "Multiplication" -> Multiplication_get_result(inputs)
    [] cls = "Division"       -> Division_get_result(inputs)
    [] OTHER                  -> Raise(ValueError(MsgNotImplemented, <<>>))

(***************************************************************************)
(* app/models/calculation.py: the factory                                  *)
(***************************************************************************)
\* the dict of AbstractCalculation.create; .get(key) is <<>> for a miss
calculation_classes(key) ==
  CASE key = addition       -> <<"Addition">>
    [] key = subtraction    -> <<"Subtraction">>
    [] key = multiplication -> <<"Multiplication">>
    [] key = division       -> <<"Division">>
    [] OTHER                -> <<>>

\* calculation_class(user_id=user_id, inputs=inputs): the mapper sets the
\* discriminator from the class; id and result are not set yet
NewInstance(cls, user_id, inputs) ==
  [cls |-> cls, id |-> 0, user_id |-> user_id,
   type |-> polymorphic_identity[cls], inputs |-> inputs, result |-> <<>>]

\* the factory returning the instance without storing its result
create_result_not_stored(calculation_type, user_id, inputs) ==
  LET calculation_class == calculation_classes(Lower(calculation_type))
  IN  IF calculation_class = <<>>
      THEN Raise(ValueError(MsgUnsupported, calculation_type))
      ELSE LET instance == NewInstance(calculation_class[1], user_id, inputs)
               r == get_result(instance.cls, instance.inputs)
           IN  IF r.ok THEN Ok(instance) ELSE Raise(r.err)

\* the factory naming the lower-cased tag in its error
create_names_lowered_tag(calculation_type, user_id, inputs) ==
  LET calculation_class == calculation_classes(Lower(calculation_type))
  IN  IF calculation_class = <<>>
      THEN Raise(ValueError(MsgUnsupported, Lower(calculation_type)))
      ELSE LET instance == NewInstance(calculation_class[1], user_id, inputs)
               r == get_result(instance.cls, instance.inputs)
           IN  IF r.ok THEN Ok([instance EXCEPT !.result = <<r.value>>])
               ELSE Raise(r.err)

\* the factory looking at the inputs before it looks the tag up
create_shape_first(calculation_type, user_id, inputs) ==
  LET calculation_class == calculation_classes(Lower(calculation_type))
  IN  IF BadShape(inputs) THEN Raise(ValueError(MsgEngineShape, <<>>))
      ELSE IF calculation_class = <<>>
      THEN Raise(ValueError(MsgUnsupported, calculation_type))
      ELSE LET instance == NewInstance(calculation_class[1], user_id, inputs)
               r == get_result(instance.cls, instance.inputs)
           IN  IF r.ok THEN Ok([instance EXCEPT !.result = <<r.value>>])
               ELSE Raise(r.err)

\* AbstractCalculation.create: the returned instance, or the raised error
create(calculation_type, user_id, inputs) ==
  LET calculation_class == calculation_classes(Lower(calculation_type))
  IN  IF calculation_class = <<>>
      THEN Raise(ValueError(MsgUnsupported, calculation_type))
      ELSE LET instance == NewInstance(calculation_class[1], user_id, inputs)
               r == get_result(instance.cls, instance.inputs)
           IN  IF r.ok THEN Ok([instance EXCEPT !.result = <<r.value>>])
               ELSE Raise(r.err)

(***************************************************************************)
(* app/schemas/calculation.py: the boundary schema                         *)
(***************************************************************************)
MsgTypeOneOf == "Type must be one of: addition, division, multiplication, subtraction"

MsgNotList == "Input should be a valid list"

MsgTooShort == "List should have at least 2 items"

MsgAtLeastTwo == "At least two numbers are required for calculation"

MsgSchemaZero == "Cannot divide by zero"

\* the values of the CalculationType enum
CalculationType == {addition, subtraction, multiplication, division}

\* @field_validator("type", mode="before"), for a str v
validate_type(v) ==
  IF Lower(v) \notin CalculationType
  THEN Raise(ValueError(MsgTypeOneOf, <<>>))
  ELSE Ok(Lower(v))

\* @field_validator("inputs", mode="before")
check_inputs_is_list(v) ==
  IF ~IsList(v) THEN Raise(ValueError(MsgNotList, <<>>)) ELSE Ok(v)

\* the inputs field without min_length
inputs_field_no_min_length(v) == check_inputs_is_list(v)

\* inputs: List[float] = Field(..., min_length=2), after the "before" validator
inputs_field(v) ==
  LET b == check_inputs_is_list(v)
  IN  IF ~b.ok THEN b
      ELSE IF Len(b.value.items) < 2 THEN Raise(ValueError(MsgTooShort, <<>>))
      ELSE Ok(b.value)

\* only the first divisor looked at
FirstDivisorZero(xs) == Len(xs) >= 2 /\ xs[2] = 0

\* any(x == 0 for x in self.inputs[1:])
AnyZeroDivisor(xs) == \E i \in 2..Len(xs) : xs[i] = 0

\* the model validator without the division rule
validate_inputs_length_only(self) ==
  IF Len(self.inputs.items) < 2
  THEN Raise(ValueError(MsgAtLeastTwo, <<>>))
  ELSE Ok(self)

\* @model_validator(mode='after')
validate_inputs(self) ==
  IF Len(self.inputs.items) < 2
  THEN Raise(ValueError(MsgAtLeastTwo, <<>>))
  ELSE IF self.type = division /\ AnyZeroDivisor(self.inputs.items)
  THEN Raise(ValueError(MsgSchemaZero, <<>>))
  ELSE Ok(self)

FieldError(loc, e) == [loc |-> loc, msg |-> e.msg]

\* CalculationBase(type=..., inputs=...): every field is validated and the
\* field errors are collected; the model validator runs only when there are
\* none.  The outcome is the validated model or the set of reported errors.
CalculationBase(type, inputs) ==
  LET t == validate_type(type)
      i == inputs_field(inputs)
      fieldErrors ==
        (IF t.ok THEN {} ELSE {FieldError("type", t.err)})
        \cup (IF i.ok THEN {} ELSE {FieldError("inputs", i.err)})
  IN  IF fieldErrors # {} THEN [ok |-> FALSE, errors |-> fieldErrors]
      ELSE LET m == validate_inputs([type |-> t.value, inputs |-> i.value])
           IN  IF m.ok THEN Ok(m.value)
               ELSE [ok |-> FALSE, errors |-> {FieldError("model", m.err)}]

MsgUuidRequired == "UUID input should be a string, bytes or UUID object"

MsgDatetimeRequired == "Input should be a valid datetime"

MsgNumberRequired == "Input should be a valid number"

\* the read model with result declared Optional[float]
CalculationRead_result_optional(record) ==
  LET base == CalculationBase(record.type, record.inputs)
      fieldErrors ==
        (IF base.ok THEN {} ELSE base.errors)
        \cup (IF record.id # 0 THEN {}
              ELSE {FieldError("id", ValueError(MsgUuidRequired, <<>>)),
                    FieldError("created_at", ValueError(MsgDatetimeRequired, <<>>)),
                    FieldError("updated_at", ValueError(MsgDatetimeRequired, <<>>))})
  IN  IF fieldErrors # {} THEN [ok |-> FALSE, errors |-> fieldErrors]
      ELSE Ok([id |-> record.id, user_id |-> record.user_id,
               type |-> base.value.type, inputs |-> base.value.inputs,
               result |-> IF record.result = <<>> THEN <<>> ELSE record.result[1]])

\* CalculationRead.model_validate(record), from_attributes=True: the fields
\* and validators of CalculationBase, and id, user_id, created_at, updated_at
\* and result, all required.  id, created_at and updated_at are column
\* defaults of the same INSERT: a record has all three or none, and the
\* model carries id (0 before the INSERT) for the three.
CalculationRead(record) ==
  LET t == validate_type(record.type)
      i == inputs_field(record.inputs)
      fieldErrors ==
        (IF t.ok THEN {} ELSE {FieldError("type", t.err)})
        \cup (IF i.ok THEN {} ELSE {FieldError("inputs", i.err)})
        \cup (IF record.id # 0 THEN {}
              ELSE {FieldError("id", ValueError(MsgUuidRequired, <<>>)),
                    FieldError("created_at", ValueError(MsgDatetimeRequired, <<>>)),
                    FieldError("updated_at", ValueError(MsgDatetimeRequired, <<>>))})
        \cup (IF record.result # <<>> THEN {}
              ELSE {FieldError("result", ValueError(MsgNumberRequired, <<>>))})
  IN  IF fieldErrors # {} THEN [ok |-> FALSE, errors |-> fieldErrors]
      ELSE LET m == validate_inputs([type |-> t.value, inputs |-> i.value])
           IN  IF ~m.ok
               THEN [ok |-> FALSE, errors |-> {FieldError("model", m.err)}]
               ELSE Ok([id |-> record.id, user_id |-> record.user_id,
                        type |-> m.value.type, inputs |-> m.value.inputs,
                        result |-> record.result[1]])

(***************************************************************************)
(* Persistence: the calculations table behind the mapped classes           *)
(***************************************************************************)
\* Column(JSON): a sequence is written as a JSON array and read back a list
json_column(v) ==
  [pytype |-> IF v.pytype = "tuple" THEN "list" ELSE v.pytype, items |-> v.items]

\* the row the INSERT of an instance writes; id is the column default
Row(instance, id) ==
  [id |-> id, user_id |-> instance.user_id, type |-> instance.type,
   inputs |-> json_column(instance.inputs), result |-> instance.result]

\* a row loaded as the base class whatever its discriminator
Load_as_base(row) ==
  [cls |-> "Calculation", id |-> row.id, user_id |-> row.user_id,
   type |-> row.type, inputs |-> row.inputs, result |-> row.result]

\* a row loaded through the base class: the discriminator picks the class
Load(row) ==
  [cls |-> polymorphic_map(row.type), id |-> row.id, user_id |-> row.user_id,
   type |-> row.type, inputs |-> row.inputs, result |-> row.result]

(***************************************************************************)
(* Requests                                                                *)
(***************************************************************************)
Request(t, u, i) == [type |-> t, user_id |-> u, inputs |-> i]

Requests == {Request(t, u, i) : t \in Tags, u \in Users, i \in Lists \cup NonLists}

\* the requests of the save-and-query runs: every variant, both owners, an
\* upper-case tag, and one request for each way create fails
StoreRequests ==
  {Request(addition, "u1", PyList(<<1, 2, 3>>)),
   Request(subtraction, "u1", PyList(<<10, 4>>)),
   Request(multiplication, "u2", PyList(<<3, 4, 2>>)),
   Request(division, "u1", PyList(<<100, 10>>)),
   Request(Upper(division), "u2", PyList(<<0, 5, 2>>)),
   Request(division, "u1", PyList(<<100, 0>>)),
   Request(modulus, "u1", PyList(<<10, 3>>)),
   Request(addition, "u2", PyList(<<5>>))}

(***************************************************************************)
(* Actions                                                                 *)
(***************************************************************************)
\* CalculationBase(**data) on the current request
Validate ==
  /\ vres' = <<CalculationBase(req.type, req.inputs)>>
  /\ UNCHANGED <<req, calc, err, db, saved, loaded, queried, via, origin, read>>

\* calc = Calculation.create(calculation_type, user_id, inputs)
Create(calculation_type, user_id, inputs) ==
  LET r == create(calculation_type, user_id, inputs)
  IN  /\ req' = Request(calculation_type, user_id, inputs)
      /\ calc' = IF r.ok THEN <<r.value>> ELSE <<>>
      /\ err' = IF r.ok THEN <<>> ELSE <<r.err>>
      /\ vres' = IF req' = req THEN vres ELSE <<>>
      /\ via' = IF r.ok THEN "create" ELSE ""
      /\ UNCHANGED <<db, saved, loaded, queried, origin, read>>

\* db_session.add(calc); db_session.commit()
Save ==
  /\ calc # <<>>
  /\ calc[1].id = 0
  /\ Len(db) < MaxRecords
  /\ LET id == Len(db) + 1
     IN  /\ db' = Append(db, Row(calc[1], id))
         /\ calc' = <<[calc[1] EXCEPT !.id = id]>>
         /\ saved' = Append(saved, calc'[1])
         /\ origin' = Append(origin, via)
  /\ UNCHANGED <<req, err, vres, loaded, queried, via, read>>

\* db_session.query(Calculation).all()
LoadAll ==
  /\ loaded' = [i \in 1..Len(db) |-> Load(db[i])]
  /\ queried' = Len(db)
  /\ UNCHANGED <<req, calc, err, vres, db, saved, via, origin, read>>

Blank ==
  /\ calc = <<>>
  /\ err = <<>>
  /\ vres = <<>>
  /\ db = <<>>
  /\ saved = <<>>
  /\ loaded = <<>>
  /\ queried = 0
  /\ via = ""
  /\ origin = <<>>
  /\ read = <<>>

\* one request, validated at the boundary and handed to the engine
Init == req \in Requests /\ Blank

Next ==
  \/ Validate
  \/ Create(req.type, req.user_id, req.inputs)

Spec == Init /\ [][Next]_vars

\* records created from successive requests, saved and queried back
InitStore == req \in StoreRequests /\ Blank

NextStore ==
  \/ \E r \in StoreRequests : Create(r.type, r.user_id, r.inputs)
  \/ Save
  \/ LoadAll

SpecStore == InitStore /\ [][NextStore]_vars

Range(s) == {s[i] : i \in 1..Len(s)}

\* calc = Addition(user_id=..., inputs=...): a variant built by its own
\* constructor, not by the factory
Construct(cls, user_id, inputs) ==
  /\ calc' = <<NewInstance(cls, user_id, inputs)>>
  /\ err' = <<>>
  /\ via' = "direct"
  /\ UNCHANGED <<req, vres, db, saved, loaded, queried, origin, read>>

\* CalculationRead.model_validate(record)
Serialize(record, source) ==
  /\ read' = <<[of |-> record, via |-> source, out |-> CalculationRead(record)]>>
  /\ UNCHANGED <<req, calc, err, vres, db, saved, loaded, queried, via, origin>>

ReadRequests ==
  {Request(addition, "u1", PyList(<<1, 2, 3>>)),
   Request(Upper(division), "u2", PyList(<<0, 5, 2>>)),
   Request(division, "u1", PyList(<<100, 0>>))}

\* records from the factory and from the constructors, saved, queried back
\* and serialized for a caller
InitRead == req \in ReadRequests /\ Blank

NextRead ==
  \/ \E r \in ReadRequests : Create(r.type, r.user_id, r.inputs)
  \/ Construct("Addition", "u1", PyList(<<1, 2, 3>>))
  \/ Construct("Division", "u2", PyList(<<100, 10>>))
  \/ Save
  \/ LoadAll
  \/ \E r \in Range(calc) : Serialize(r, via)
  \/ \E i \in 1..Len(saved) : Serialize(saved[i], origin[i])
  \/ \E i \in 1..Len(loaded) : Serialize(loaded[i], origin[i])

SpecRead == InitRead /\ [][NextRead]_vars

(***************************************************************************)
(* Vocabulary of the properties                                            *)
(***************************************************************************)
FourTags == {addition, subtraction, multiplication, division}

FourVariants == {"Addition", "Subtraction", "Multiplication", "Division"}

\* a and b differ at most in the case of their letters
SameUpToCase(a, b) ==
  /\ Len(a) = Len(b)
  /\ \A i \in 1..Len(a) : UpperChar[a[i]] = UpperChar[b[i]]

KnownTag(t) == \E w \in FourTags : SameUpToCase(t, w)

\* the known tag that t spells, for a known t
TagWord(t) == CHOOSE w \in FourTags : SameUpToCase(t, w)

VariantNamed(w) ==
  CASE w = addition       -> "Addition"
    [] w = subtraction    -> "Subtraction"
    [] w = multiplication -> "Multiplication"
    [] w = division       -> "Division"

ZeroAtDivisor(xs) == \E i \in 2..Len(xs) : xs[i] = 0

Front(xs) == SubSeq(xs, 1, Len(xs) - 1)

Last(xs) == xs[Len(xs)]

RECURSIVE RefSum(_)
RefSum(xs) == IF xs = <<>> THEN 0 ELSE RefSum(Front(xs)) + Last(xs)

RECURSIVE RefProduct(_)
RefProduct(xs) == IF xs = <<>> THEN 1 ELSE RefProduct(Front(xs)) * Last(xs)

RECURSIVE RefDifference(_)
RefDifference(xs) ==
  IF Len(xs) = 1 THEN xs[1] ELSE RefDifference(Front(xs)) - Last(xs)

\* xs[1] / xs[2] / ... / xs[n] as a pair <<numerator, denominator>>
RECURSIVE RefQuotient(_)
RefQuotient(xs) ==
  IF Len(xs) = 1 THEN <<xs[1], 1>>
  ELSE LET q == RefQuotient(Front(xs)) IN <<q[1], q[2] * Last(xs)>>

\* the fraction f is the number p[1] / p[2]
SameNumber(f, p) == f.n * p[2] = p[1] * f.d

\* the stored result f is what the reference fold of variant w gives on xs
IsReference(w, xs, f) ==
  CASE w = addition       -> SameNumber(f, <<RefSum(xs), 1>>)
    [] w = subtraction    -> SameNumber(f, <<RefDifference(xs), 1>>)
    [] w = multiplication -> SameNumber(f, <<RefProduct(xs), 1>>)
    [] w = division       -> SameNumber(f, RefQuotient(xs))

\* create has run on the current request / the schema has
Created == calc # <<>> \/ err # <<>>

Validated == vres # <<>>

Failed(msg) == calc = <<>> /\ err # <<>> /\ err[1].msg = msg

\* the error kinds by the message texts of the code.  The engine has one
\* shape error, whose text states both the list rule and the two-number rule.
InvalidInputsMsgs == {MsgEngineShape, MsgNotList}

TooFewInputsMsgs == {MsgEngineShape, MsgTooShort, MsgAtLeastTwo}

\* the schema rejected the request and reported an error of these texts
Rejected(msgs) ==
  /\ Validated
  /\ ~vres[1].ok
  /\ \E e \in vres[1].errors : e.msg \in msgs

\* calling get_result on record r gives its stored result
Reproduces(r) ==
  /\ r.result # <<>>
  /\ LET again == get_result(r.cls, r.inputs)
     IN  again.ok /\ again.value = r.result[1]

(***************************************************************************)
(* Properties                                                              *)
(***************************************************************************)
\* C1: every record create returned, and every record handed to the session
\* and row written from it, has a result, and that result is what its
\* variant's get_result gives on its own inputs; a create that failed
\* returned no record.
C1_ResultIsRecomputed ==
  /\ \A r \in Range(calc) \cup Range(saved) : Reproduces(r)
  /\ \A i \in 1..Len(db) : Reproduces(Load(db[i])) /\ db[i].result = saved[i].result
  /\ err # <<>> => calc = <<>>

\* two rows are stored and a later create has failed
C1_Witness ==
  /\ Len(db) = 2
  /\ db[2].type = division
  /\ err # <<>>
  /\ calc = <<>>

\* C2: on a list of at least 2 numbers (no zero divisor for division) create
\* succeeds with the reference fold of its type: the sum, the product from 1,
\* inputs[0] minus each later element, inputs[0] divided by each later
\* element; subtraction of [10,4] is 6 and of [4,10] is -6.
C2_ResultIsReferenceFold ==
  /\ ( /\ Created
       /\ KnownTag(req.type)
       /\ IsList(req.inputs)
       /\ Len(req.inputs.items) >= 2
       /\ ~(TagWord(req.type) = division /\ ZeroAtDivisor(req.inputs.items)) )
     => /\ calc # <<>>
        /\ calc[1].result # <<>>
        /\ IsReference(TagWord(req.type), req.inputs.items, calc[1].result[1])
  /\ create(subtraction, "u1", PyList(<<10, 4>>)).value.result = <<Int2Frac(6)>>
  /\ create(subtraction, "u1", PyList(<<4, 10>>)).value.result = <<Int2Frac(0 - 6)>>
  /\ create(multiplication, "u1", PyList(<<3, 4, 2>>)).value.result = <<Int2Frac(24)>>
  /\ create(addition, "u1", PyList(<<1, 2, 3>>)).value.result = <<Int2Frac(6)>>

\* a three-element division whose quotient is not an integer
C2_Witness ==
  /\ calc # <<>>
  /\ calc[1].type = division
  /\ Len(calc[1].inputs.items) = 3
  /\ calc[1].result[1].d > 1

\* C3: on a list of at least 2 numbers, create of a division fails with
\* DivisionByZero exactly when some element at index >= 1 is zero, at any
\* divisor position; a zero numerator alone is accepted and gives 0.
C3_DivisionByZeroIffZeroDivisor ==
  ( /\ Created
    /\ KnownTag(req.type)
    /\ TagWord(req.type) = division
    /\ IsList(req.inputs)
    /\ Len(req.inputs.items) >= 2 )
  => /\ Failed(MsgEngineZero) <=> ZeroAtDivisor(req.inputs.items)
     /\ ~ZeroAtDivisor(req.inputs.items) => calc # <<>>
     /\ (req.inputs.items[1] = 0 /\ ~ZeroAtDivisor(req.inputs.items))
          => calc[1].result = <<Int2Frac(0)>>

\* the zero is the last of two divisors and the first divisor is not zero
C3_Witness ==
  /\ Failed(MsgEngineZero)
  /\ Len(req.inputs.items) = 3
  /\ req.inputs.items[2] # 0
  /\ req.inputs.items[3] = 0

\* C4: create with a tag that is none of the four, in any letter case, fails
\* with UnsupportedType, the error names the tag as it was given, and no
\* record is produced; every record create returns is one of the four
\* variants.
C4_UnsupportedType ==
  /\ (Created /\ ~KnownTag(req.type))
       => /\ Failed(MsgUnsupported)
          /\ err[1].arg = req.type
  /\ calc # <<>>
       => /\ calc[1].cls \in FourVariants
          /\ calc[1].type \in FourTags
          /\ KnownTag(req.type)

\* an unknown tag given in upper case is named in upper case
C4_Witness ==
  /\ Failed(MsgUnsupported)
  /\ req.type = Upper(modulus)
  /\ err[1].arg = Upper(modulus)

\* C5: two requests whose tags differ only in letter case are accepted or
\* rejected alike by the schema and by create, and when accepted give the
\* same variant, the same lower-case type and the same result.
C5_CaseInsensitive ==
  \A t \in Tags :
    SameUpToCase(t, req.type) =>
      /\ Validated =>
           LET other == CalculationBase(t, req.inputs)
           IN  /\ other.ok = vres[1].ok
               /\ other.ok => /\ other.value = vres[1].value
                              /\ other.value.type \in FourTags
      /\ Created =>
           LET other == create(t, req.user_id, req.inputs)
           IN  /\ other.ok = (calc # <<>>)
               /\ other.ok => /\ other.value = calc[1]
                              /\ other.value.type \in FourTags

\* an upper-case tag accepted by both layers
C5_Witness ==
  /\ req.type = Upper(multiplication)
  /\ Validated
  /\ vres[1].ok
  /\ vres[1].value.type = multiplication
  /\ calc # <<>>
  /\ calc[1].cls = "Multiplication"

\* C6: for each of the four variants, create on exactly 2 well-formed inputs
\* succeeds, and create on 0 or 1 inputs fails with the too-few-inputs error.
C6_TwoInputsSucceedFewerFail ==
  (Created /\ KnownTag(req.type) /\ IsList(req.inputs)) =>
    /\ ( /\ Len(req.inputs.items) = 2
         /\ ~(TagWord(req.type) = division /\ ZeroAtDivisor(req.inputs.items)) )
       => /\ calc # <<>>
          /\ calc[1].cls = VariantNamed(TagWord(req.type))
    /\ Len(req.inputs.items) < 2
       => /\ calc = <<>>
          /\ err # <<>>
          /\ err[1].msg \in TooFewInputsMsgs

\* a division on the single input 0 fails on its shape
C6_Witness ==
  /\ req.type = division
  /\ req.inputs = PyList(<<0>>)
  /\ Failed(MsgEngineShape)

\* C7: loading all records by the base class returns exactly the saved
\* records, each as the variant named by its stored type with its columns
\* unchanged, and get_result on each loaded record gives its stored result.
C7_PolymorphicReload ==
  /\ Len(loaded) = queried
  /\ queried <= Len(db)
  /\ \A i \in 1..Len(loaded) :
       /\ loaded[i] = saved[i]
       /\ loaded[i].cls = VariantNamed(db[i].type)
       /\ loaded[i].id = db[i].id
       /\ loaded[i].user_id = db[i].user_id
       /\ loaded[i].type = db[i].type
       /\ loaded[i].inputs = db[i].inputs
       /\ loaded[i].result = db[i].result
       /\ Reproduces(loaded[i])

\* two records of different variants, one of them a division created from
\* an upper-case tag, have been saved and loaded
C7_Witness ==
  /\ queried = 2
  /\ Len(loaded) = 2
  /\ loaded[1].cls # loaded[2].cls
  /\ loaded[2].cls = "Division"
  /\ loaded[2].inputs = PyList(<<0, 5, 2>>)

\* C8: for a known tag and a list of at least 2 numbers the schema fails with
\* DivisionByZero exactly when the type is division and some element at
\* index >= 1 is zero; otherwise it accepts the request.
C8_SchemaDivisionByZero ==
  ( /\ Validated
    /\ KnownTag(req.type)
    /\ IsList(req.inputs)
    /\ Len(req.inputs.items) >= 2 )
  => LET zero == TagWord(req.type) = division /\ ZeroAtDivisor(req.inputs.items)
     IN  /\ Rejected({MsgSchemaZero}) <=> zero
         /\ vres[1].ok <=> ~zero

\* the schema rejects a division whose last of two divisors is zero
C8_Witness ==
  /\ Rejected({MsgSchemaZero})
  /\ Len(req.inputs.items) = 3
  /\ req.inputs.items[2] # 0
  /\ req.inputs.items[3] = 0

\* C9: for a string tag and a list of numbers, the schema accepts the request
\* exactly when create succeeds on the same type and inputs.
C9_BoundaryAgreesWithEngine ==
  (Validated /\ Created /\ IsList(req.inputs)) => (vres[1].ok <=> calc # <<>>)

\* both layers have rejected a division by zero
C9_Witness ==
  /\ Rejected({MsgSchemaZero})
  /\ Failed(MsgEngineZero)

\* the inputs errors the schema reports
ShapeErrors(outcome) ==
  IF outcome.ok THEN {} ELSE {e \in outcome.errors : e.loc = "inputs"}

\* C10: at the schema, for every tag, inputs that is not a list is rejected
\* with the should-be-a-list error, a list of fewer than 2 numbers is
\* rejected with the too-few-inputs error, a list of 2 or more passes the
\* shape check, and the shape errors are the same for each of the four types.
C10_SchemaShape ==
  Validated =>
    /\ ~IsList(req.inputs)
         => /\ Rejected({MsgNotList})
            /\ ShapeErrors(vres[1]) = {[loc |-> "inputs", msg |-> MsgNotList]}
    /\ (IsList(req.inputs) /\ Len(req.inputs.items) < 2)
         => /\ Rejected(TooFewInputsMsgs)
            /\ \A e \in ShapeErrors(vres[1]) : e.msg \in TooFewInputsMsgs
    /\ (IsList(req.inputs) /\ Len(req.inputs.items) >= 2)
         => /\ ShapeErrors(vres[1]) = {}
            /\ ~Rejected(InvalidInputsMsgs \cup TooFewInputsMsgs)
    /\ \A t \in FourTags :
         ShapeErrors(CalculationBase(t, req.inputs)) = ShapeErrors(vres[1])

\* a one-element list under an unknown tag: the type error and the
\* too-few-inputs error are both reported
C10_Witness ==
  /\ Rejected(TooFewInputsMsgs)
  /\ Rejected({MsgTypeOneOf})
  /\ Len(req.inputs.items) = 1

\* C11: the read model fails on any record whose result is absent, and
\* succeeds on every record that create produced and that was saved, exposing
\* its id, owner, type, inputs and result unchanged; no record that create
\* produced has its result absent.
C11_ReadModel ==
  /\ read # <<>> =>
       LET r == read[1].of
           o == read[1].out
       IN  /\ r.result = <<>>
                => /\ ~o.ok
                   /\ \E e \in o.errors : e.loc = "result"
           /\ (read[1].via = "create" /\ r.id # 0)
                => /\ o.ok
                   /\ o.value.id = r.id
                   /\ o.value.user_id = r.user_id
                   /\ o.value.type = r.type
                   /\ o.value.inputs = r.inputs
                   /\ r.result # <<>>
                   /\ o.value.result = r.result[1]
  /\ via = "create" => \A r \in Range(calc) : r.result # <<>>
  /\ \A i \in 1..Len(saved) :
       origin[i] = "create" => saved[i].result # <<>> /\ db[i].result # <<>>
  /\ \A i \in 1..Len(loaded) : origin[i] = "create" => loaded[i].result # <<>>

\* beside a saved record of the factory, a saved record built by the
\* Division constructor was serialized and refused for its absent result only
C11_Witness ==
  /\ read # <<>>
  /\ read[1].via = "direct"
  /\ read[1].of.cls = "Division"
  /\ read[1].of.id # 0
  /\ read[1].of.result = <<>>
  /\ ~read[1].out.ok
  /\ read[1].out.errors = {[loc |-> "result", msg |-> MsgNumberRequired]}
  /\ \E i \in 1..Len(origin) : origin[i] = "create"

\* the error create reports is the one of the earliest rule broken
EarliestError ==
  Created =>
    /\ ~KnownTag(req.type)
         => /\ Failed(MsgUnsupported)
            /\ err[1].arg = req.type
    /\ (KnownTag(req.type) /\ (~IsList(req.inputs) \/ Len(req.inputs.items) < 2))
         => /\ calc = <<>>
            /\ err # <<>>
            /\ err[1].msg \in InvalidInputsMsgs
            /\ err[1].msg \notin {MsgEngineZero, MsgUnsupported}
    /\ ( /\ KnownTag(req.type)
         /\ IsList(req.inputs)
         /\ Len(req.inputs.items) >= 2
         /\ err # <<>> )
         => /\ TagWord(req.type) = division
            /\ Failed(MsgEngineZero)

\* C12: create checks its arguments in a fixed order: an unknown tag gives
\* UnsupportedType even when inputs is short or not a list; for a known tag
\* malformed inputs give the shape error before any arithmetic, so division
\* on [0] never gives DivisionByZero; and create run again on the same
\* request gives the same outcome.
C12_FixedCheckOrder ==
  [][ /\ EarliestError'
      /\ Created => (err' = err /\ calc' = calc) ]_vars

\* an unknown tag with inputs that is not a list at all
C12_Witness ==
  /\ Failed(MsgUnsupported)
  /\ req.type = modulus
  /\ req.inputs.pytype = "NoneType"

====
